---- MODULE Spec2Model ----
(***************************************************************************)
(* jsonprops: conversion of a JSON value tree into a flat, key-ordered     *)
(* .properties store (src/src/props.rs), driven by main (src/src/main.rs)  *)
(* under a Config (src/src/app_config.rs).                                 *)
(*                                                                         *)
(* A Rust String is modelled as a sequence of one-character strings, so    *)
(* that escaping, trimming, joining and byte-wise ordering are computed    *)
(* character by character as the code computes them.                       *)
(***************************************************************************)
EXTENDS Integers, Sequences, FiniteSets

VARIABLES
  pc,          \* where the run stands
  config,      \* the Config: list_handling, discard_wsp, entry_separator
  value,       \* the serde_json::Value at hand
  namespace,   \* the raw namespace handed to parse_value or PropKey::new
  prop_key,    \* the text of the PropKey that PropKey::new returned
  text,        \* the String handed to normalise
  normalised,  \* what normalise returned
  pairs,       \* the (PropKey, String) pairs of the walk, in walk order
  props,       \* Properties.props
  outcome,     \* how create / parse_value ended, with the value an error carries
  out          \* the bytes export wrote

vars == <<pc, config, value, namespace, prop_key, text, normalised, pairs, props, outcome, out>>

-----------------------------------------------------------------------------
(* Characters and strings                                                  *)

\* The code points of the characters the model uses (String's Ord compares bytes).
Code ==
  [c \in {"\t", "\n", " ", "#", ",", "-", ".", ":", "=", "\\",
          "0", "1", "2", "3", "4", "5", "6", "7", "8", "9",
          "a", "b", "e", "f", "l", "n", "r", "s", "t", "u", "x"} |->
     CASE c = "\t" -> 9   [] c = "\n" -> 10  [] c = " " -> 32   [] c = "#" -> 35
       [] c = ","  -> 44  [] c = "-"  -> 45  [] c = "." -> 46   [] c = "0" -> 48
       [] c = "1"  -> 49  [] c = "2"  -> 50  [] c = "3" -> 51   [] c = "4" -> 52
       [] c = "5"  -> 53  [] c = "6"  -> 54  [] c = "7" -> 55   [] c = "8" -> 56
       [] c = "9"  -> 57  [] c = ":"  -> 58  [] c = "=" -> 61   [] c = "\\" -> 92
       [] c = "a"  -> 97  [] c = "b"  -> 98  [] c = "e" -> 101  [] c = "f" -> 102
       [] c = "l"  -> 108 [] c = "n"  -> 110 [] c = "r" -> 114  [] c = "s" -> 115
       [] c = "t"  -> 116 [] c = "u"  -> 117 [] c = "x" -> 120]

\* char::is_whitespace, on the characters of the model
is_whitespace(c) == c \in {" ", "\t", "\n"}

\* str_constant::{COMMA, EQ, COLON, SPACE}
COMMA == <<",">>
EQ == <<"=">>
COLON == <<":">>
SPACE == <<" ">>

\* Ord for String: lexicographic on the code points
RECURSIVE StrLess(_, _)
StrLess(a, b) ==
  IF b = <<>> THEN FALSE
  ELSE IF a = <<>> THEN TRUE
  ELSE IF Head(a) = Head(b) THEN StrLess(Tail(a), Tail(b))
  ELSE Code[Head(a)] < Code[Head(b)]

\* str::trim_start: drop characters while they are whitespace
RECURSIVE trim_start(_)
trim_start(s) ==
  IF s # <<>> /\ is_whitespace(Head(s)) THEN trim_start(Tail(s)) ELSE s

\* [String]::join(sep)
RECURSIVE join(_, _)
join(strs, sep) ==
  IF strs = <<>> THEN <<>>
  ELSE IF Len(strs) = 1 THEN strs[1]
  ELSE strs[1] \o sep \o join(Tail(strs), sep)

\* Display for an unsigned integer: its decimal digits
RECURSIVE Digits(_)
Digits(n) ==
  LET d == <<"0", "1", "2", "3", "4", "5", "6", "7", "8", "9">>[(n % 10) + 1]
  IN  IF n < 10 THEN <<d>> ELSE Digits(n \div 10) \o <<d>>

\* serde_json::Number::to_string and usize::to_string, for integers
NumberToString(n) == IF n < 0 THEN <<"-">> \o Digits(-n) ELSE Digits(n)

\* bool::to_string
BoolToString(b) == IF b THEN <<"t", "r", "u", "e">> ELSE <<"f", "a", "l", "s", "e">>

-----------------------------------------------------------------------------
(* WhiteSpaceNormalised for String                                         *)

\* normalise dropping one leading whitespace character where the code drops them all
normalise_DropOne(self, discard_wsp) ==
  LET starts_with_wsp == IF self # <<>> THEN is_whitespace(Head(self)) ELSE FALSE
  IN  IF starts_with_wsp /\ discard_wsp THEN Tail(self)
      ELSE IF starts_with_wsp THEN <<"\\">> \o self
      ELSE self

normalise(self, discard_wsp) ==
  LET starts_with_wsp == IF self # <<>> THEN is_whitespace(Head(self)) ELSE FALSE
  IN  IF starts_with_wsp /\ discard_wsp THEN trim_start(self)
      ELSE IF starts_with_wsp THEN <<"\\">> \o self
      ELSE self

-----------------------------------------------------------------------------
(* prop_key::PropKey                                                       *)

\* the escaping loop of PropKey::new: `for c in s.chars()`
RECURSIVE EscapeLoop(_, _)
EscapeLoop(inner, s) ==
  IF s = <<>> THEN inner
  ELSE LET c == Head(s)
       IN  IF c = " " \/ c = ":" \/ c = "="
           THEN EscapeLoop(inner \o <<"\\", c>>, Tail(s))
           ELSE EscapeLoop(Append(inner, c), Tail(s))

\* PropKey::new without the test for a leading '#'
PropKey_new_NoHash(s) == EscapeLoop(<<>>, s)

PropKey_new(s) ==
  LET inner == IF s # <<>> /\ Head(s) = "#" THEN <<"\\">> ELSE <<>>
  IN  EscapeLoop(inner, s)

-----------------------------------------------------------------------------
(* serde_json::Value                                                       *)

Null == [t |-> "null"]
Bool(b) == [t |-> "bool", b |-> b]
Number(n) == [t |-> "num", n |-> n]
String(s) == [t |-> "str", s |-> s]
Array(items) == [t |-> "arr", items |-> items]
\* a Map<String, Value> is the sequence of its (key, value) members in iteration
\* order, keys unique
Object(members) == [t |-> "obj", members |-> members]

\* Display for Value on the variants primitive_to_string hands it
ValueToString(v) ==
  CASE v.t = "bool" -> BoolToString(v.b)
    [] v.t = "num"  -> NumberToString(v.n)
    [] v.t = "null" -> <<"n", "u", "l", "l">>

-----------------------------------------------------------------------------
(* BTreeMap<PropKey, String>: the entries in ascending key order           *)

\* an insert that keeps the value of a key the map already holds
BTreeMap_insert_KeepFirst(map, k, v) ==
  IF \E i \in 1..Len(map) : map[i].key = k
  THEN map
  ELSE LET pos == Cardinality({i \in 1..Len(map) : StrLess(map[i].key, k)})
       IN  SubSeq(map, 1, pos) \o <<[key |-> k, val |-> v]>> \o SubSeq(map, pos + 1, Len(map))

BTreeMap_insert(map, k, v) ==
  IF \E i \in 1..Len(map) : map[i].key = k
  THEN [i \in 1..Len(map) |-> IF map[i].key = k THEN [key |-> k, val |-> v] ELSE map[i]]
  ELSE LET pos == Cardinality({i \in 1..Len(map) : StrLess(map[i].key, k)})
       IN  SubSeq(map, 1, pos) \o <<[key |-> k, val |-> v]>> \o SubSeq(map, pos + 1, Len(map))

\* FromIterator for BTreeMap (`.collect()`): a later pair replaces an earlier one
RECURSIVE collect(_, _)
collect(map, kvs) ==
  IF kvs = <<>> THEN map
  ELSE collect(BTreeMap_insert(map, kvs[1].key, kvs[1].val), Tail(kvs))

-----------------------------------------------------------------------------
(* PropertiesBuilder                                                       *)

\* concat_namespace without the '.' between the two
concat_namespace_NoDot(ns, sub_key) == ns \o sub_key

concat_namespace(ns, sub_key) == ns \o <<".">> \o sub_key

\* has_only_primitives looking at the first element only
has_only_primitives_FirstOnly(values) ==
  values = <<>> \/ ~(values[1].t \in {"arr", "obj"})

has_only_primitives(values) ==
  \A i \in 1..Len(values) : ~(values[i].t \in {"arr", "obj"})

\* panic is TRUE where the code reaches unreachable!()
\* primitive_to_string trimming the leading whitespace of a String element
primitive_to_string_Trimmed(v) ==
  CASE v.t = "str" -> [panic |-> FALSE, s |-> trim_start(v.s)]
    [] v.t \in {"bool", "num", "null"} -> [panic |-> FALSE, s |-> ValueToString(v)]
    [] OTHER -> [panic |-> TRUE, s |-> <<>>]

primitive_to_string(v) ==
  CASE v.t = "str" -> [panic |-> FALSE, s |-> v.s]
    [] v.t \in {"bool", "num", "null"} -> [panic |-> FALSE, s |-> ValueToString(v)]
    [] OTHER -> [panic |-> TRUE, s |-> <<>>]

\* a Vec<(PropKey, String)>, or the panic that unwound the call
Vec(kvs) == [panic |-> FALSE, pairs |-> kvs]
Panic == [panic |-> TRUE, pairs |-> <<>>]
Chain(r1, r2) == IF r1.panic \/ r2.panic THEN Panic ELSE Vec(r1.pairs \o r2.pairs)

RECURSIVE parse_value(_, _, _), flat_map_object(_, _, _), flat_map_array(_, _, _, _)

parse_value(cfg, ns, v) ==
  LET key == PropKey_new(ns)
  IN  CASE v.t = "null" -> Vec(<<[key |-> key, val |-> <<>>]>>)
        [] v.t = "num"  -> Vec(<<[key |-> key, val |-> NumberToString(v.n)]>>)
        [] v.t = "str"  -> Vec(<<[key |-> key, val |-> normalise(v.s, cfg.discard_wsp)]>>)
        [] v.t = "bool" -> Vec(<<[key |-> key, val |-> BoolToString(v.b)]>>)
        [] v.t = "obj"  -> flat_map_object(cfg, ns, v.members)
        [] v.t = "arr"  ->
             IF cfg.list_handling = "SingleProp"
             THEN IF has_only_primitives(v.items)
                  THEN LET strs == [i \in 1..Len(v.items) |-> primitive_to_string(v.items[i])]
                           list_val == join([i \in 1..Len(strs) |-> strs[i].s], COMMA)
                       IN  IF \E i \in 1..Len(strs) : strs[i].panic
                           THEN Panic
                           ELSE Vec(<<[key |-> key, val |-> normalise(list_val, cfg.discard_wsp)]>>)
                  ELSE Vec(<<>>)
             ELSE flat_map_array(cfg, ns, v.items, 0)

\* object_map.into_iter().flat_map(|(s, v)| parse_value(concat_namespace(namespace, s), v))
flat_map_object(cfg, ns, members) ==
  IF members = <<>> THEN Vec(<<>>)
  ELSE Chain(parse_value(cfg, concat_namespace(ns, members[1].name), members[1].value),
             flat_map_object(cfg, ns, Tail(members)))

\* values.into_iter().enumerate().flat_map(|(i, v)| ...), from index i on
flat_map_array(cfg, ns, items, i) ==
  IF items = <<>> THEN Vec(<<>>)
  ELSE Chain(parse_value(cfg, concat_namespace(ns, NumberToString(i)), items[1]),
             flat_map_array(cfg, ns, Tail(items), i + 1))

\* flat_map over the top-level members taken from the last to the first
RECURSIVE flat_map_top_Reversed(_, _)
flat_map_top_Reversed(cfg, object_map) ==
  IF object_map = <<>> THEN Vec(<<>>)
  ELSE Chain(flat_map_top_Reversed(cfg, Tail(object_map)),
             parse_value(cfg, object_map[1].name, object_map[1].value))

\* the iterator parse_internal collects: flat_map over the top-level members
RECURSIVE flat_map_top(_, _)
flat_map_top(cfg, object_map) ==
  IF object_map = <<>> THEN Vec(<<>>)
  ELSE Chain(parse_value(cfg, object_map[1].name, object_map[1].value),
             flat_map_top(cfg, Tail(object_map)))

parse_internal(cfg, object_map) ==
  LET it == flat_map_top(cfg, object_map)
  IN  [panic |-> it.panic, pairs |-> it.pairs, props |-> collect(<<>>, it.pairs)]

\* Properties::empty
empty == <<>>

\* build taking a top-level array for a primitive
build_ArrayAsPrimitive(cfg, v) ==
  CASE v.t = "obj" ->
         LET p == parse_internal(cfg, v.members)
         IN  IF p.panic
             THEN [outcome |-> "panic", err |-> Null, pairs |-> <<>>, props |-> empty]
             ELSE [outcome |-> "Ok", err |-> Null, pairs |-> p.pairs, props |-> p.props]
    [] v.t = "null" -> [outcome |-> "Ok", err |-> Null, pairs |-> <<>>, props |-> empty]
    [] v.t \in {"str", "bool", "num", "arr"} ->
         [outcome |-> "TopLevelPrimitiveError", err |-> v, pairs |-> <<>>, props |-> empty]

\* the Result of build: Ok(Properties) or Err(PropertyConstructionError(value))
build(cfg, v) ==
  CASE v.t = "obj" ->
         LET p == parse_internal(cfg, v.members)
         IN  IF p.panic
             THEN [outcome |-> "panic", err |-> Null, pairs |-> <<>>, props |-> empty]
             ELSE [outcome |-> "Ok", err |-> Null, pairs |-> p.pairs, props |-> p.props]
    [] v.t = "null" -> [outcome |-> "Ok", err |-> Null, pairs |-> <<>>, props |-> empty]
    [] v.t \in {"str", "bool", "num"} ->
         [outcome |-> "TopLevelPrimitiveError", err |-> v, pairs |-> <<>>, props |-> empty]
    [] v.t = "arr" ->
         [outcome |-> "TopLevelArrayError", err |-> v, pairs |-> <<>>, props |-> empty]

\* Config::entry_separator
entry_separator(cfg) ==
  CASE cfg.entry_separator = "Equals" -> EQ
    [] cfg.entry_separator = "Colon"  -> COLON
    [] cfg.entry_separator = "Space"  -> SPACE

\* the bytes Properties::export writes: writeln!(w, "{k}{sep}{v}") per entry
RECURSIVE export(_, _)
export(map, sep) ==
  IF map = <<>> THEN <<>>
  ELSE map[1].key \o sep \o map[1].val \o <<"\n">> \o export(Tail(map), sep)

-----------------------------------------------------------------------------
(* Bounded inputs                                                          *)

\* a document has at most MaxNodes values, counting the root
MaxNodes == 4
\* a raw namespace handed to PropKey::new has at most MaxKeyLen characters
MaxKeyLen == 3
\* a String handed to normalise has at most MaxTextLen characters
MaxTextLen == 3

ListHandlings == {"SingleProp", "MultiProp"}
\* the Configs of the runs: any list handling, discard_wsp set or not, and the entry
\* separator at its default, Equals; export alone reads the separator
Configs ==
  [list_handling : ListHandlings, discard_wsp : BOOLEAN, entry_separator : {"Equals"}]

StringsUpTo(chars, n) == UNION {[1..k -> chars] : k \in 0..n}

\* leaves: one of each scalar kind; the string begins with a space and holds a line break
Scalars == {Null, Bool(TRUE), Number(-10), String(<<" ", "\n", "x">>)}

\* member names: "#a" and "\#a" escape to the same key, and so do "#a.#a" and the
\* member "#a" of a member "#a"; "#a.#a" sorts before "\#a" and its key after
Names == {<<"#", "a">>, <<"\\", "#", "a">>, <<"#", "a", ".", "#", "a">>}

\* the sequences of values of m nodes in all, and the member sequences of m nodes in
\* all with distinct names, where bySize[j] is the set of the values of exactly j nodes
RECURSIVE ItemsOfSize(_, _), MembersOfSize(_, _, _)
ItemsOfSize(m, bySize) ==
  IF m = 0 THEN {<<>>}
  ELSE UNION {{<<v>> \o rest : v \in bySize[j], rest \in ItemsOfSize(m - j, bySize)} : j \in 1..m}
MembersOfSize(m, names, bySize) ==
  IF m = 0 THEN {<<>>}
  ELSE UNION {{<<[name |-> jn[2], value |-> v]>> \o rest :
                 v \in bySize[jn[1]],
                 rest \in MembersOfSize(m - jn[1], names \ {jn[2]}, bySize)} :
              jn \in (1..m) \X names}

\* ValuesBySize(n)[k], k \in 1..n: the values of exactly k nodes
RECURSIVE ValuesBySize(_)
ValuesBySize(n) ==
  IF n = 0 THEN <<>>
  ELSE LET bySize == ValuesBySize(n - 1)
       IN  Append(bySize,
                  (IF n = 1 THEN Scalars ELSE {})
                    \cup {Array(items) : items \in ItemsOfSize(n - 1, bySize)}
                    \cup {Object(members) : members \in MembersOfSize(n - 1, Names, bySize)})

ValuesUpTo(n) == LET bySize == ValuesBySize(n) IN UNION {bySize[k] : k \in 1..n}

\* SmallValues[k], k \in 1..(MaxNodes - 1): the values of exactly k nodes. A document
\* is one of them, or an array or object of exactly MaxNodes nodes: a first child of
\* j nodes and further children of MaxNodes - 1 - j nodes in all
SmallValues == ValuesBySize(MaxNodes - 1)

-----------------------------------------------------------------------------
(* main: parse_json, Properties::create, Properties::export                *)

NoOutcome == [kind |-> "none", value |-> Null]

Init ==
  /\ pc = "start"
  /\ config \in Configs
  /\ value = Null
  /\ namespace = <<>>
  /\ prop_key = <<>>
  /\ text = <<>>
  /\ normalised = <<>>
  /\ pairs = <<>>
  /\ props = empty
  /\ outcome = NoOutcome
  /\ out = <<>>

\* Properties::create(json, &config)
create(json) ==
  LET r == build(config, json)
  IN  /\ value' = json
      /\ outcome' = [kind |-> r.outcome, value |-> r.err]
      /\ pairs' = r.pairs
      /\ props' = r.props
      /\ pc' = IF r.outcome = "Ok" THEN "created" ELSE "failed"

\* parse_json returns Ok(json), then Properties::create(json, &config)
Create ==
  /\ pc = "start"
  /\ \/ \E k \in 1..(MaxNodes - 1) : \E json \in SmallValues[k] : create(json)
     \/ \E j \in 1..(MaxNodes - 1) :
          \E first \in SmallValues[j] :
            \E rest \in ItemsOfSize(MaxNodes - 1 - j, SmallValues) :
              create(Array(<<first>> \o rest))
     \/ \E j \in 1..(MaxNodes - 1) :
          \E name \in Names :
            \E first \in SmallValues[j] :
              \E rest \in MembersOfSize(MaxNodes - 1 - j, Names \ {name}, SmallValues) :
                create(Object(<<[name |-> name, value |-> first]>> \o rest))
  /\ UNCHANGED <<config, namespace, prop_key, text, normalised, out>>

\* parse_json returns Err: the file cannot be read or is not JSON
ParseJsonErr ==
  /\ pc = "start"
  /\ pc' = "failed"
  /\ outcome' = [kind |-> "ParseError", value |-> Null]
  /\ UNCHANGED <<config, value, namespace, prop_key, text, normalised, pairs, props, out>>

\* prop.export(&config), writing to standard output
Export ==
  /\ pc = "created"
  /\ out' = export(props, entry_separator(config))
  /\ pc' = "exported"
  /\ UNCHANGED <<config, value, namespace, prop_key, text, normalised, pairs, props, outcome>>

Next == Create \/ ParseJsonErr \/ Export

Spec == Init /\ [][Next]_vars

-----------------------------------------------------------------------------
(* parse_value called on its own: one namespace, one value below the root  *)

Namespaces == {<<>>, <<"x">>, <<"#", "x">>, <<"x", ".", "0">>, <<"x", " ", "=">>}

InitValue ==
  /\ pc = "call"
  /\ config \in Configs
  /\ value \in ValuesUpTo(MaxNodes - 1)
  /\ namespace \in Namespaces
  /\ prop_key = <<>>
  /\ text = <<>>
  /\ normalised = <<>>
  /\ pairs = <<>>
  /\ props = empty
  /\ outcome = NoOutcome
  /\ out = <<>>

ParseValue ==
  /\ pc = "call"
  /\ LET r == parse_value(config, namespace, value)
     IN  /\ pairs' = r.pairs
         /\ outcome' = [kind |-> IF r.panic THEN "panic" ELSE "Ok", value |-> Null]
  /\ pc' = "returned"
  /\ UNCHANGED <<config, value, namespace, prop_key, text, normalised, props, out>>

NextValue == ParseValue

SpecValue == InitValue /\ [][NextValue]_vars

-----------------------------------------------------------------------------
(* PropKey::new called on its own                                          *)

KeyChars == {"a", "#", " ", "\t", ":", "=", ".", "\\"}

InitKey ==
  /\ pc = "call"
  /\ config = [list_handling |-> "MultiProp", discard_wsp |-> FALSE, entry_separator |-> "Equals"]
  /\ value = Null
  /\ namespace \in StringsUpTo(KeyChars, MaxKeyLen)
  /\ prop_key = <<>>
  /\ text = <<>>
  /\ normalised = <<>>
  /\ pairs = <<>>
  /\ props = empty
  /\ outcome = NoOutcome
  /\ out = <<>>

NewPropKey ==
  /\ pc = "call"
  /\ prop_key' = PropKey_new(namespace)
  /\ pc' = "returned"
  /\ UNCHANGED <<config, value, namespace, text, normalised, pairs, props, outcome, out>>

NextKey == NewPropKey

SpecKey == InitKey /\ [][NextKey]_vars

-----------------------------------------------------------------------------
(* normalise called on its own                                             *)

TextChars == {"x", " ", "\t", "\n", "\\"}

InitNormalise ==
  /\ pc = "call"
  /\ config \in Configs
  /\ value = Null
  /\ namespace = <<>>
  /\ prop_key = <<>>
  /\ text \in StringsUpTo(TextChars, MaxTextLen)
  /\ normalised = <<>>
  /\ pairs = <<>>
  /\ props = empty
  /\ outcome = NoOutcome
  /\ out = <<>>

Normalise ==
  /\ pc = "call"
  /\ normalised' = normalise(text, config.discard_wsp)
  /\ pc' = "returned"
  /\ UNCHANGED <<config, value, namespace, prop_key, text, pairs, props, outcome, out>>

NextNormalise == Normalise

SpecNormalise == InitNormalise /\ [][NextNormalise]_vars

-----------------------------------------------------------------------------
(* Properties of PropKey::new                                              *)

RECURSIVE ConcatAll(_)
ConcatAll(ss) == IF ss = <<>> THEN <<>> ELSE ConcatAll(SubSeq(ss, 1, Len(ss) - 1)) \o ss[Len(ss)]

\* the escaped text as the claim words it: each character on its own, then a
\* backslash in front iff the raw string begins with '#'
EscapedChar(c) == IF c \in {" ", ":", "="} THEN <<"\\", c>> ELSE <<c>>
EscapedText(raw) ==
  (IF raw # <<>> /\ raw[1] = "#" THEN <<"\\">> ELSE <<>>)
    \o ConcatAll([i \in 1..Len(raw) |-> EscapedChar(raw[i])])

\* C6: PropKey::new returns for every raw string, and the key's text is the raw string
\* with a backslash put before each space, ':' and '=', every other character kept in
\* place, and one more backslash in front iff the raw string begins with '#'
C6_KeyEscaping ==
  pc = "returned" =>
    /\ prop_key = EscapedText(namespace)
    /\ (namespace = <<"a", ":", "a">> => prop_key = <<"a", "\\", ":", "a">>)
    /\ (namespace = <<"#", "a">> => prop_key = <<"\\", "#", "a">>)
    /\ (namespace = <<" ", " ", "#">> => prop_key = <<"\\", " ", "\\", " ", "#">>)
    /\ (namespace = <<"a">> => prop_key = <<"a">>)

C6_Witness ==
  /\ pc = "returned"
  /\ namespace = <<"#", ":", "#">>
  /\ prop_key = <<"\\", "#", "\\", ":", "#">>

\* the raw string is whitespace, any number of characters of any kind, and then '#'
FirstNonWhitespaceIsHash(raw) ==
  \E k \in 1..Len(raw) :
    /\ raw[k] = "#"
    /\ \A i \in 1..(k - 1) : is_whitespace(raw[i])

\* C10: the key of a raw namespace whose first non-whitespace character is '#'
\* begins with a backslash
C10_CommentSafe ==
  (pc = "returned" /\ FirstNonWhitespaceIsHash(namespace)) => prop_key[1] = "\\"

-----------------------------------------------------------------------------
(* Properties of normalise                                                 *)

\* how many whitespace characters the string begins with
LeadingWhitespace(s) ==
  CHOOSE k \in 0..Len(s) :
    /\ \A i \in 1..k : is_whitespace(s[i])
    /\ k = Len(s) \/ ~is_whitespace(s[k + 1])

\* C7: normalise returns a string that does not begin with whitespace as it is; one
\* that does, without its leading whitespace when discard_wsp is set, and behind one
\* backslash otherwise; what follows the leading whitespace is never changed
C7_Normalise ==
  pc = "returned" =>
    IF LeadingWhitespace(text) = 0 THEN normalised = text
    ELSE IF config.discard_wsp
         THEN normalised = SubSeq(text, LeadingWhitespace(text) + 1, Len(text))
         ELSE normalised = <<"\\">> \o text

C7_Witness ==
  /\ pc = "returned"
  /\ config.discard_wsp
  /\ text = <<" ", "\t", "x">>
  /\ normalised = <<"x">>

-----------------------------------------------------------------------------
(* Properties of Properties::create                                        *)

Created == pc \in {"created", "exported"}
IsScalar(v) == v.t \in {"null", "bool", "num", "str"}
Keys(map) == {map[j].key : j \in 1..Len(map)}

\* the text of a scalar leaf: "" for Null, true or false, the decimal text, the
\* normalised string
LeafText(v) ==
  CASE v.t = "null" -> <<>>
    [] v.t = "bool" -> IF v.b THEN <<"t", "r", "u", "e">> ELSE <<"f", "a", "l", "s", "e">>
    [] v.t = "num"  -> NumberToString(v.n)
    [] v.t = "str"  -> normalise(v.s, config.discard_wsp)

\* C1: create fails on a top-level Bool, Number or String with TopLevelPrimitiveError
\* and on a top-level Array with TopLevelArrayError, each carrying the value; it
\* succeeds with an empty store on Null and succeeds on every Object, whatever is
\* nested in it and whatever the list handling
C1_TopLevelDispatch ==
  (pc \in {"created", "failed", "exported"} /\ outcome.kind # "ParseError") =>
    /\ value.t \in {"bool", "num", "str"} =>
         pc = "failed" /\ outcome = [kind |-> "TopLevelPrimitiveError", value |-> value]
    /\ value.t = "arr" =>
         pc = "failed" /\ outcome = [kind |-> "TopLevelArrayError", value |-> value]
    /\ value.t = "null" => Created /\ outcome.kind = "Ok" /\ Len(props) = 0
    /\ value.t = "obj" => Created /\ outcome.kind = "Ok"

C1_Witness ==
  /\ pc = "failed"
  /\ value.t = "arr"
  /\ Len(value.items) = 2
  /\ outcome = [kind |-> "TopLevelArrayError", value |-> value]

ScalarMembersOnly(v) ==
  v.t = "obj" /\ \A i \in 1..Len(v.members) : IsScalar(v.members[i].value)

\* C2 as stated: an object of scalar members yields one entry per member, under the
\* escaped member name and holding the member's text
C2_OneEntryPerMember ==
  (Created /\ ScalarMembersOnly(value)) =>
    /\ Len(props) = Len(value.members)
    /\ \A i \in 1..Len(value.members) :
         \E j \in 1..Len(props) :
           props[j] = [key |-> PropKey_new(value.members[i].name),
                       val |-> LeafText(value.members[i].value)]

\* the last member whose name escapes to the key k
LastMemberFor(members, k) ==
  CHOOSE i \in 1..Len(members) :
    /\ PropKey_new(members[i].name) = k
    /\ \A i2 \in (i + 1)..Len(members) : PropKey_new(members[i2].name) # k

\* C2 as amended: an object of scalar members yields one entry per distinct escaped
\* member name, holding the text of the last member whose name escapes to that key
C2_OneEntryPerEscapedName ==
  (Created /\ ScalarMembersOnly(value)) =>
    /\ Keys(props) = {PropKey_new(value.members[i].name) : i \in 1..Len(value.members)}
    /\ Len(props) = Cardinality(Keys(props))
    /\ \A j \in 1..Len(props) :
         props[j].val = LeafText(value.members[LastMemberFor(value.members, props[j].key)].value)

C2_Witness ==
  /\ pc = "created"
  /\ ScalarMembersOnly(value)
  /\ Len(value.members) = 3
  /\ Len(props) = 2
  /\ value.members[1].value # value.members[3].value
  /\ PropKey_new(value.members[1].name) = PropKey_new(value.members[3].name)

\* the scalar leaves below v in depth-first order, each with the segments of its
\* path from v: member names and zero-based decimal array indices
RECURSIVE LeafPaths(_), LeafPathsOfMembers(_), LeafPathsOfItems(_, _)
Under(segment, leaves) ==
  [i \in 1..Len(leaves) |-> [path |-> <<segment>> \o leaves[i].path, leaf |-> leaves[i].leaf]]
LeafPaths(v) ==
  CASE v.t = "obj" -> LeafPathsOfMembers(v.members)
    [] v.t = "arr" -> LeafPathsOfItems(v.items, 0)
    [] OTHER -> <<[path |-> <<>>, leaf |-> v]>>
LeafPathsOfMembers(members) ==
  IF members = <<>> THEN <<>>
  ELSE Under(members[1].name, LeafPaths(members[1].value)) \o LeafPathsOfMembers(Tail(members))
LeafPathsOfItems(items, index) ==
  IF items = <<>> THEN <<>>
  ELSE Under(Digits(index), LeafPaths(items[1])) \o LeafPathsOfItems(Tail(items), index + 1)

\* the key of a leaf: its segments joined with '.', escaped once after joining
PathKey(path) == PropKey_new(join(path, <<".">>))

\* C3 as stated: under MultiProp the keys of the store are exactly the escaped paths
\* of the scalar leaves, and the entry of each leaf holds that leaf's text
C3_EveryLeafItsEntry ==
  (Created /\ config.list_handling = "MultiProp" /\ value.t = "obj") =>
    LET leaves == LeafPaths(value)
    IN  /\ Keys(props) = {PathKey(leaves[i].path) : i \in 1..Len(leaves)}
        /\ \A i \in 1..Len(leaves) :
             \E j \in 1..Len(props) :
               props[j] = [key |-> PathKey(leaves[i].path), val |-> LeafText(leaves[i].leaf)]

\* the last leaf, in depth-first order, whose path escapes to the key k
LastLeafFor(leaves, k) ==
  CHOOSE i \in 1..Len(leaves) :
    /\ PathKey(leaves[i].path) = k
    /\ \A i2 \in (i + 1)..Len(leaves) : PathKey(leaves[i2].path) # k

\* C3 as amended: under MultiProp the keys of the store are exactly the escaped paths
\* of the scalar leaves, no key twice, and each entry holds the text of the last
\* leaf in depth-first order whose path escapes to its key
C3_LastLeafPerKey ==
  (Created /\ config.list_handling = "MultiProp" /\ value.t = "obj") =>
    LET leaves == LeafPaths(value)
    IN  /\ Keys(props) = {PathKey(leaves[i].path) : i \in 1..Len(leaves)}
        /\ Len(props) = Cardinality(Keys(props))
        /\ \A j \in 1..Len(props) :
             props[j].val = LeafText(leaves[LastLeafFor(leaves, props[j].key)].leaf)

C3_Witness ==
  /\ pc = "created"
  /\ config.list_handling = "MultiProp"
  /\ value.t = "obj"
  /\ Len(value.members) = 1
  /\ value.members[1].value.t = "arr"
  /\ Len(value.members[1].value.items) = 2
  /\ Keys(props) = {PropKey_new(value.members[1].name \o <<".", "0">>),
                    PropKey_new(value.members[1].name \o <<".", "1">>)}

\* an array that SingleProp drops: one of its elements is an Array or an Object
DroppedArray(v) ==
  v.t = "arr" /\ \E i \in 1..Len(v.items) : ~IsScalar(v.items[i])

\* v without the members, at any depth, that are dropped arrays
RECURSIVE WithoutDroppedArrays(_), MembersWithoutDroppedArrays(_)
WithoutDroppedArrays(v) ==
  IF v.t = "obj" THEN Object(MembersWithoutDroppedArrays(v.members)) ELSE v
MembersWithoutDroppedArrays(members) ==
  IF members = <<>> THEN <<>>
  ELSE IF DroppedArray(members[1].value) THEN MembersWithoutDroppedArrays(Tail(members))
  ELSE <<[name |-> members[1].name, value |-> WithoutDroppedArrays(members[1].value)]>>
         \o MembersWithoutDroppedArrays(Tail(members))

\* C5: under SingleProp an array holding an Array or an Object adds no pair, create
\* still succeeds, the pairs and the store are those of the document without that
\* member, and unreachable!() is never reached
C5_DroppedArrayIsAbsent ==
  /\ outcome.kind # "panic"
  /\ (pc \in {"created", "failed", "exported"} /\ config.list_handling = "SingleProp"
        /\ value.t = "obj" /\ outcome.kind # "ParseError") =>
       LET without == build(config, WithoutDroppedArrays(value))
       IN  /\ Created
           /\ outcome.kind = "Ok"
           /\ pairs = without.pairs
           /\ props = without.props

C5_Witness ==
  /\ pc = "created"
  /\ config.list_handling = "SingleProp"
  /\ value.t = "obj"
  /\ Len(value.members) = 2
  /\ DroppedArray(value.members[1].value)
  /\ IsScalar(value.members[2].value)
  /\ PropKey_new(value.members[1].name) = PropKey_new(value.members[2].name)
  /\ props = <<[key |-> PropKey_new(value.members[2].name),
                val |-> LeafText(value.members[2].value)]>>

\* the orders the members of one object can be listed in
MemberOrders(members) ==
  {[i \in 1..Len(members) |-> members[f[i]]] :
     f \in {g \in [1..Len(members) -> 1..Len(members)] :
              \A i, j \in 1..Len(members) : i # j => g[i] # g[j]}}

\* the documents that differ from v in the order of the members of its objects only
RECURSIVE Reordered(_), ReorderedItems(_), ReorderedMembers(_)
Reordered(v) ==
  CASE v.t = "obj" -> UNION {{Object(p) : p \in MemberOrders(ms)} : ms \in ReorderedMembers(v.members)}
    [] v.t = "arr" -> {Array(items) : items \in ReorderedItems(v.items)}
    [] OTHER -> {v}
ReorderedItems(items) ==
  IF items = <<>> THEN {<<>>}
  ELSE {<<first>> \o rest : first \in Reordered(items[1]), rest \in ReorderedItems(Tail(items))}
ReorderedMembers(members) ==
  IF members = <<>> THEN {<<>>}
  ELSE {<<[name |-> members[1].name, value |-> first]>> \o rest :
          first \in Reordered(members[1].value), rest \in ReorderedMembers(Tail(members))}

\* no two pairs of the walk have the same key
NoCollision(kvs) == \A i, j \in 1..Len(kvs) : i # j => kvs[i].key # kvs[j].key

\* C9: of the pairs of one walk that have the same key the store holds exactly one
\* entry, with the value of the pair the walk produced last; and when no two pairs
\* have the same key the store is the same for every order of the members of the
\* document's objects
C9_LastPairWins ==
  (Created /\ value.t = "obj") =>
    /\ Keys(props) = Keys(pairs)
    /\ Len(props) = Cardinality(Keys(pairs))
    /\ \A i \in 1..Len(pairs) :
         (\A i2 \in (i + 1)..Len(pairs) : pairs[i2].key # pairs[i].key) =>
           \E j \in 1..Len(props) : props[j] = pairs[i]
    /\ NoCollision(pairs) =>
         \A other \in Reordered(value) : build(config, other).props = props

C9_Witness ==
  /\ pc = "created"
  /\ Len(pairs) = 3
  /\ pairs[1].key = pairs[3].key
  /\ pairs[1].val # pairs[3].val
  /\ pairs[2].key # pairs[1].key
  /\ Len(props) = 2
  /\ \E j \in 1..2 : props[j] = pairs[3]

\* the number of line breaks in the bytes written
RECURSIVE LineCount(_)
LineCount(bytes) ==
  IF bytes = <<>> THEN 0
  ELSE (IF Head(bytes) = "\n" THEN 1 ELSE 0) + LineCount(Tail(bytes))

\* C8: export writes the entries in strictly ascending order of the key text, no
\* key twice, each as key, separator, value and a line break, and so as many lines
\* as the store has entries
C8_OneLinePerEntry ==
  pc = "exported" =>
    /\ \A j \in 1..(Len(props) - 1) : StrLess(props[j].key, props[j + 1].key)
    /\ out = ConcatAll([j \in 1..Len(props) |->
                          props[j].key \o entry_separator(config) \o props[j].val \o <<"\n">>])
    /\ LineCount(out) = Len(props)

-----------------------------------------------------------------------------
(* Properties of parse_value                                               *)

ScalarsOnly(v) == v.t = "arr" /\ \A i \in 1..Len(v.items) : IsScalar(v.items[i])

\* an element rendered the way a scalar leaf of its kind is, the string as it is
TextAsLeaf(v) ==
  CASE v.t = "null" -> <<>>
    [] v.t = "bool" -> IF v.b THEN <<"t", "r", "u", "e">> ELSE <<"f", "a", "l", "s", "e">>
    [] v.t = "num"  -> NumberToString(v.n)
    [] v.t = "str"  -> v.s

\* an element rendered as JSON writes it, the string as it is: Null is "null"
TextAsJson(v) == IF v.t = "null" THEN <<"n", "u", "l", "l">> ELSE TextAsLeaf(v)

\* C4 as stated: under SingleProp an array of scalars yields the one pair of the
\* escaped namespace and the normalised comma-joined texts of the elements, each
\* rendered as a leaf of its kind is
C4_JoinOfLeafTexts ==
  (pc = "returned" /\ config.list_handling = "SingleProp" /\ ScalarsOnly(value)) =>
    pairs = <<[key |-> PropKey_new(namespace),
               val |-> normalise(join([i \in 1..Len(value.items) |-> TextAsLeaf(value.items[i])],
                                      <<",">>),
                                 config.discard_wsp)]>>

\* C4 as amended: under SingleProp an array of scalars yields the one pair of the
\* escaped namespace and the normalised comma-joined texts of the elements, a Null
\* element rendered as "null"
C4_JoinOfJsonTexts ==
  (pc = "returned" /\ config.list_handling = "SingleProp" /\ ScalarsOnly(value)) =>
    /\ outcome.kind = "Ok"
    /\ pairs = <<[key |-> PropKey_new(namespace),
                  val |-> normalise(join([i \in 1..Len(value.items) |-> TextAsJson(value.items[i])],
                                         <<",">>),
                                    config.discard_wsp)]>>

C4_Witness ==
  /\ pc = "returned"
  /\ config.list_handling = "SingleProp"
  /\ value = Array(<<Number(-10), String(<<" ", "\n", "x">>)>>)
  /\ namespace = <<"x", " ", "=">>
  /\ pairs = <<[key |-> <<"x", "\\", " ", "\\", "=">>,
                val |-> <<"-", "1", "0", ",", " ", "\n", "x">>]>>

====
